---- MODULE Spec2Model ----
(***************************************************************************)
(* Model of packages/common-db: the cryptographic envelope of crypto.rs    *)
(* (EncryptionKey, encrypt/decrypt with AES-256-GCM, wrap_key/unwrap_key   *)
(* with ChaCha20-Poly1305 under a password-derived key).                   *)
(*                                                                         *)
(* The two AEAD ciphers are library code.  They are modelled as a stream   *)
(* cipher (the body is the plaintext XOR a keystream of key and nonce)     *)
(* followed by a TAG_SIZE-byte authentication tag.  The tag is the ideal   *)
(* MAC of (algorithm, key, nonce, body): a symbolic term that is equal to  *)
(* another tag only when all four agree, with the set of its bits that     *)
(* were flipped in transit.                                                *)
(***************************************************************************)
EXTENDS Integers, Sequences, FiniteSets, TLC

VARIABLES
    cur,     \* the box most recently returned by encrypt / wrap_key, with the call's arguments
    last,    \* the most recent call of Spec and its result
    calls,   \* SpecCalls: the encrypt / wrap_key calls made so far, in order
    heap,    \* SpecKeys: the EncryptionKey values created so far (live or released)
    kres,    \* SpecKeys: the most recent key-lifecycle call and its result
    db,      \* SpecMig, SpecMigConc: the SQLite database (user_version, tables, write lock)
    runs,    \* SpecMig, SpecMigConc: the run_migrations invocations so far
    store,   \* SpecStore: the master_keys table
    mem      \* SpecMem: the buffers wrap_key / unwrap_key leave behind when they return

vars == <<cur, last, calls, heap, kres, db, runs, store, mem>>

(* the variables the cryptographic calls never touch *)
rest == <<db, runs, store, mem>>

----------------------------------------------------------------------------
(* Bounds of the model *)

MaxDataLen == 2      \* plaintexts of 0..MaxDataLen bytes
MaxPwLen == 1        \* password heads of 0..MaxPwLen bytes
MaxTailBlocks == 2   \* a password is a head followed by 0..MaxTailBlocks blocks of 32 equal bytes
MaxNonceLen == 13    \* boxes handed to decrypt / unwrap_key carry nonces of 0..MaxNonceLen bytes
MaxCalls == 3        \* SpecCalls: encrypt / wrap_key calls per run
MaxKeys == 3         \* SpecKeys: EncryptionKey values per run
MaxBufLen == 33      \* SpecKeys: from_bytes buffers of 0..MaxBufLen bytes
MaxRuns == 3         \* SpecMig: run_migrations invocations, one after the other
MaxRunners == 2      \* SpecMigConc: run_migrations invocations that may overlap

(* Program constants *)

KEY_SIZE == 32               \* [u8; 32]
AES_GCM_NONCE_SIZE == 12
CHACHA_NONCE_SIZE == 12
TAG_SIZE == 16               \* both AEADs append a 128-bit tag to the ciphertext

----------------------------------------------------------------------------
(* Bytes *)

RECURSIVE BitXor(_, _)
BitXor(a, b) ==
    IF a = 0 THEN b
    ELSE IF b = 0 THEN a
    ELSE (((a % 2) + (b % 2)) % 2) + 2 * BitXor(a \div 2, b \div 2)

RECURSIVE Pow2(_)
Pow2(n) == IF n = 0 THEN 1 ELSE 2 * Pow2(n - 1)

Zeros(n) == [i \in 1..n |-> 0]

Rep(b, n) == [i \in 1..n |-> b]

RECURSIVE SeqsUpTo(_, _)
SeqsUpTo(S, n) ==
    IF n = 0 THEN {<<>>}
    ELSE LET shorter == SeqsUpTo(S, n - 1)
         IN  shorter \cup {Append(s, b) : s \in {t \in shorter : Len(t) = n - 1}, b \in S}

(* bit `pos` (0 = least significant bit of the first byte) of a byte string flipped *)
FlipBitOf(bytes, pos) ==
    [bytes EXCEPT ![(pos \div 8) + 1] = BitXor(@, Pow2(pos % 8))]

(* a byte string cut or zero-extended to n bytes *)
Resize(bytes, n) == [i \in 1..n |-> IF i <= Len(bytes) THEN bytes[i] ELSE 0]

----------------------------------------------------------------------------
(* Results: anyhow::Result<T> carrying a CryptoError *)

Ok(v) == [ok |-> TRUE, val |-> v, err |-> "", info |-> <<>>]

Err(e, info) == [ok |-> FALSE, val |-> <<>>, err |-> e, info |-> info]

----------------------------------------------------------------------------
(* The AEAD ciphers (aes_gcm::Aes256Gcm, chacha20poly1305::ChaCha20Poly1305) *)

(* keystream byte i of the cipher under (key, nonce) *)
Keystream(alg, key, nonce, i) ==
    (key[((i - 1) % KEY_SIZE) + 1] * 3
       + nonce[((i - 1) % Len(nonce)) + 1] * 5
       + i * 7
       + (IF alg = "Aes256Gcm" THEN 1 ELSE 2)) % 256

StreamXor(alg, key, nonce, bytes) ==
    [i \in 1..Len(bytes) |-> BitXor(bytes[i], Keystream(alg, key, nonce, i))]

(* the authentication tag of a ciphertext body: the ideal MAC *)
Mac(alg, key, nonce, body) ==
    [alg |-> alg, key |-> key, nonce |-> nonce, body |-> body]

(* cipher.encrypt(nonce, plaintext): body || tag *)
AeadEncrypt(alg, key, nonce, plaintext) ==
    LET body == StreamXor(alg, key, nonce, plaintext)
    IN  Ok([body |-> body,
            tag  |-> [mac |-> Mac(alg, key, nonce, body), flipped |-> {}]])

(* cipher.decrypt(nonce, ciphertext): verifies the tag, then decrypts *)
AeadDecrypt(alg, key, nonce, ciphertext) ==
    IF ciphertext.tag = [mac |-> Mac(alg, key, nonce, ciphertext.body), flipped |-> {}]
    THEN Ok(StreamXor(alg, key, nonce, ciphertext.body))
    ELSE Err("aead::Error", <<>>)
----------------------------------------------------------------------------
(* The operating system's random source: the n bytes one draw returns.      *)
(* A draw is any byte string; the model samples the draws by a seed.        *)

RngSeeds == {1, 2}

Draw(seed, n) == [i \in 1..n |-> (seed * 31 + i * 17) % 256]

----------------------------------------------------------------------------
(* EncryptionKey: pub struct EncryptionKey(pub [u8; 32]) *)

(* EncryptionKey::generate *)
generate(seed) == [i \in 1..KEY_SIZE |-> Draw(seed, KEY_SIZE)[i]]

(* a from_bytes that rejects only short buffers and truncates long ones *)
from_bytes_truncating(bytes) ==
    IF Len(bytes) < KEY_SIZE
    THEN Err("InvalidData", <<"A chave deve ter 32 bytes, recebeu", Len(bytes)>>)
    ELSE Ok([i \in 1..KEY_SIZE |-> bytes[i]])

(* EncryptionKey::from_bytes *)
from_bytes(bytes) ==
    IF Len(bytes) # KEY_SIZE
    THEN Err("InvalidData", <<"A chave deve ter 32 bytes, recebeu", Len(bytes)>>)
    ELSE Ok([i \in 1..KEY_SIZE |-> bytes[i]])

(* #[derive(Zeroize)]: every byte of the array overwritten with zero *)
zeroize(key) == [i \in 1..Len(key) |-> 0]

(* a release that frees the key without touching its bytes *)
drop_without_zeroize(key) == key

(* #[zeroize(drop)]: Drop::drop calls zeroize; the bytes left in the released memory *)
drop(key) == zeroize(key)

(* #[derive(Clone)]: a second, independently owned EncryptionKey *)
clone(key) == [i \in 1..KEY_SIZE |-> key[i]]

(* EncryptionKey::as_bytes *)
as_bytes(key) == key

----------------------------------------------------------------------------
(* Field encryption *)

(* a nonce generator that returns the same nonce on every call *)
generate_nonce_fixed(seed) == Zeros(AES_GCM_NONCE_SIZE)

(* Aes256Gcm::generate_nonce(&mut OsRng) *)
generate_nonce(seed) == Draw(seed, AES_GCM_NONCE_SIZE)

(* an encrypt that returns a zeroed nonce buffer instead of the nonce it used *)
encrypt_losing_nonce(data, key, seed) ==
    LET nonce  == generate_nonce(seed)
        sealed == AeadEncrypt("Aes256Gcm", as_bytes(key), nonce, data)
    IN  IF ~sealed.ok
        THEN Err("EncryptionFailed", sealed.err)
        ELSE Ok([ciphertext |-> sealed.val, nonce |-> Zeros(AES_GCM_NONCE_SIZE)])

encrypt(data, key, seed) ==
    LET nonce  == generate_nonce(seed)
        sealed == AeadEncrypt("Aes256Gcm", as_bytes(key), nonce, data)
    IN  IF ~sealed.ok
        THEN Err("EncryptionFailed", sealed.err)
        ELSE Ok([ciphertext |-> sealed.val, nonce |-> nonce])

(* a decrypt that turns an authentication failure into an empty plaintext *)
decrypt_swallowing_failure(encrypted, key) ==
    IF Len(encrypted.nonce) # AES_GCM_NONCE_SIZE
    THEN Err("InvalidData",
             <<"Nonce invalido: esperado", AES_GCM_NONCE_SIZE, "recebido", Len(encrypted.nonce)>>)
    ELSE LET opened == AeadDecrypt("Aes256Gcm", as_bytes(key), encrypted.nonce,
                                   encrypted.ciphertext)
         IN  IF ~opened.ok THEN Ok(<<>>) ELSE Ok(opened.val)

(* a decrypt that applies the keystream without verifying the tag *)
decrypt_unauthenticated(encrypted, key) ==
    IF Len(encrypted.nonce) # AES_GCM_NONCE_SIZE
    THEN Err("InvalidData",
             <<"Nonce invalido: esperado", AES_GCM_NONCE_SIZE, "recebido", Len(encrypted.nonce)>>)
    ELSE Ok(StreamXor("Aes256Gcm", as_bytes(key), encrypted.nonce, encrypted.ciphertext.body))

(* a decrypt that checks the nonce length only after the cipher has failed *)
decrypt_checking_late(encrypted, key) ==
    LET opened == AeadDecrypt("Aes256Gcm", as_bytes(key), encrypted.nonce,
                              encrypted.ciphertext)
    IN  IF ~opened.ok
        THEN Err("DecryptionFailed", opened.err)
        ELSE IF Len(encrypted.nonce) # AES_GCM_NONCE_SIZE
        THEN Err("InvalidData",
                 <<"Nonce invalido: esperado", AES_GCM_NONCE_SIZE, "recebido", Len(encrypted.nonce)>>)
        ELSE Ok(opened.val)

decrypt(encrypted, key) ==
    IF Len(encrypted.nonce) # AES_GCM_NONCE_SIZE
    THEN Err("InvalidData",
             <<"Nonce invalido: esperado", AES_GCM_NONCE_SIZE, "recebido", Len(encrypted.nonce)>>)
    ELSE LET opened == AeadDecrypt("Aes256Gcm", as_bytes(key), encrypted.nonce,
                                   encrypted.ciphertext)
         IN  IF ~opened.ok
             THEN Err("DecryptionFailed", opened.err)
             ELSE Ok(opened.val)

----------------------------------------------------------------------------
(* Key wrapping *)

(* for (i, byte) in password.as_bytes().iter().enumerate()                  *)
(*     { wrapping_key[i % 32] ^= byte; }    from byte `at` (1-based) on     *)
RECURSIVE XorInto(_, _, _)
XorInto(wrapping_key, password, at) ==
    IF at > Len(password) THEN wrapping_key
    ELSE XorInto([wrapping_key EXCEPT ![((at - 1) % KEY_SIZE) + 1] = BitXor(@, password[at])],
                 password, at + 1)

(* the wrapping key wrap_key derives *)
wrap_wrapping_key(password) == XorInto(Zeros(KEY_SIZE), password, 1)

(* an unwrap derivation whose loop starts one byte late *)
unwrap_wrapping_key_skipping(password) == XorInto(Zeros(KEY_SIZE), password, 2)

(* the wrapping key unwrap_key derives *)
unwrap_wrapping_key(password) == XorInto(Zeros(KEY_SIZE), password, 1)

wrap_key(key, password, seed) ==
    LET wrapping_key == wrap_wrapping_key(password)
        nonce  == Draw(seed, CHACHA_NONCE_SIZE)
        sealed == AeadEncrypt("ChaCha20Poly1305", wrapping_key, nonce, as_bytes(key))
    IN  IF ~sealed.ok
        THEN Err("EncryptionFailed", sealed.err)
        ELSE Ok([ciphertext |-> sealed.val, nonce |-> nonce])

(* an unwrap that builds the key from whatever plaintext it recovered *)
unwrap_key_unchecked(encrypted, password) ==
    LET wrapping_key == unwrap_wrapping_key(password)
    IN  IF Len(encrypted.nonce) # CHACHA_NONCE_SIZE
        THEN Err("InvalidData",
                 <<"Nonce invalido: esperado 12 bytes, recebido", Len(encrypted.nonce)>>)
        ELSE LET opened == AeadDecrypt("ChaCha20Poly1305", wrapping_key, encrypted.nonce,
                                       encrypted.ciphertext)
             IN  IF ~opened.ok
                 THEN Err("DecryptionFailed", opened.err)
                 ELSE Ok(opened.val)

unwrap_key(encrypted, password) ==
    LET wrapping_key == unwrap_wrapping_key(password)
    IN  IF Len(encrypted.nonce) # CHACHA_NONCE_SIZE
        THEN Err("InvalidData",
                 <<"Nonce invalido: esperado 12 bytes, recebido", Len(encrypted.nonce)>>)
        ELSE LET opened == AeadDecrypt("ChaCha20Poly1305", wrapping_key, encrypted.nonce,
                                       encrypted.ciphertext)
             IN  IF ~opened.ok
                 THEN Err("DecryptionFailed", opened.err)
                 ELSE from_bytes(opened.val)

----------------------------------------------------------------------------
(* Inputs *)

KeySamples ==
    {generate(s) : s \in RngSeeds} \cup {FlipBitOf(generate(1), 8 * KEY_SIZE - 1)}

DataSamples == SeqsUpTo({0, 195}, MaxDataLen)

(* passwords: a short head, then blocks of 32 bytes 'a' (so that i % 32 wraps) *)
Passwords ==
    {head \o Rep(97, KEY_SIZE * t) : head \in SeqsUpTo({97, 98}, MaxPwLen), t \in 0..MaxTailBlocks}

(* the boxes an attacker or a faulty store makes of a box: one bit of the    *)
(* ciphertext (body or tag) or of the nonce flipped                          *)
FlipCiphertextBit(box, pos) ==
    IF pos < 8 * Len(box.ciphertext.body)
    THEN [box EXCEPT !.ciphertext.body = FlipBitOf(@, pos)]
    ELSE [box EXCEPT !.ciphertext.tag.flipped = {pos - 8 * Len(box.ciphertext.body)}]

FlipNonceBit(box, pos) == [box EXCEPT !.nonce = FlipBitOf(@, pos)]

BitFlips(box) ==
    {FlipCiphertextBit(box, pos) : pos \in 0..(8 * (Len(box.ciphertext.body) + TAG_SIZE) - 1)}
    \cup {FlipNonceBit(box, pos) : pos \in 0..(8 * Len(box.nonce) - 1)}

(* the same box with its nonce cut or extended to n bytes *)
WithNonceLen(box, n) == [box EXCEPT !.nonce = Resize(@, n)]

NonceLens(box) == {WithNonceLen(box, n) : n \in 0..MaxNonceLen}

----------------------------------------------------------------------------
(* Spec: one run is a call of encrypt or wrap_key followed by a call of      *)
(* decrypt or unwrap_key on the returned box (as it is, with one bit         *)
(* flipped, or with a nonce of another length), or one call of from_bytes.   *)

NoBox ==
    [ciphertext |-> [body |-> <<>>, tag |-> [mac |-> Mac("", <<>>, <<>>, <<>>), flipped |-> {}]],
     nonce |-> <<>>]

NoCall == [op |-> "none", data |-> <<>>, key |-> <<>>, password |-> <<>>, box |-> NoBox]

Call(op, box, key, password, out) ==
    [op |-> op, box |-> box, key |-> key, password |-> password, out |-> out]

Buffers == {Draw(1, n) : n \in 0..MaxBufLen}

(* a database file just created: PRAGMA user_version is 0 and there are no tables *)
FreshDb == [user_version |-> 0, tables |-> {}, commits |-> <<>>, lock |-> 0]

NoResidue ==
    [op |-> "none", buffers |-> <<>>, password |-> <<>>, box |-> NoBox, arg |-> NoBox,
     out |-> Ok(<<>>)]

(* the master_keys table of a new database: no row, no transaction open *)
NoStore == [records |-> <<>>, tx |-> <<>>, step |-> "idle", last |-> "none", ever |-> {}]

InitOther ==
    /\ calls = <<>> /\ heap = <<>> /\ kres = [op |-> "none"]
    /\ db = FreshDb /\ runs = <<>> /\ store = NoStore /\ mem = NoResidue

Init ==
    /\ cur = NoCall
    /\ last = Call("none", NoBox, <<>>, <<>>, Ok(<<>>))
    /\ InitOther

Encrypt ==
    /\ last.op = "none"
    /\ \E data \in DataSamples, key \in KeySamples, seed \in RngSeeds :
        LET out == encrypt(data, key, seed)
        IN  /\ last' = Call("encrypt", NoBox, key, <<>>, out)
            /\ cur' = IF out.ok
                      THEN [op |-> "encrypt", data |-> data, key |-> key,
                            password |-> <<>>, box |-> out.val]
                      ELSE cur
            /\ UNCHANGED <<calls, heap, kres, rest>>

Decrypt ==
    /\ last.op \in {"encrypt", "wrap_key"}
    /\ cur.op # "none"
    /\ \E box \in {cur.box} \cup BitFlips(cur.box) \cup NonceLens(cur.box), key \in KeySamples :
        /\ last' = Call("decrypt", box, key, <<>>, decrypt(box, key))
        /\ UNCHANGED <<cur, calls, heap, kres, rest>>

WrapKey ==
    /\ last.op = "none"
    /\ \E key \in KeySamples, password \in Passwords, seed \in RngSeeds :
        LET out == wrap_key(key, password, seed)
        IN  /\ last' = Call("wrap_key", NoBox, key, password, out)
            /\ cur' = IF out.ok
                      THEN [op |-> "wrap_key", data |-> as_bytes(key), key |-> key,
                            password |-> password, box |-> out.val]
                      ELSE cur
            /\ UNCHANGED <<calls, heap, kres, rest>>

UnwrapKey ==
    /\ last.op \in {"encrypt", "wrap_key"}
    /\ cur.op # "none"
    /\ \E box \in {cur.box} \cup NonceLens(cur.box), password \in Passwords :
        /\ last' = Call("unwrap_key", box, <<>>, password, unwrap_key(box, password))
        /\ UNCHANGED <<cur, calls, heap, kres, rest>>

FromBytes ==
    /\ last.op = "none"
    /\ \E bytes \in Buffers :
        /\ last' = Call("from_bytes", NoBox, bytes, <<>>, from_bytes(bytes))
        /\ UNCHANGED <<cur, calls, heap, kres, rest>>

(* unwrap_key called on a box that was sealed under the password's wrapping  *)
(* key but holds a plaintext of any length (not a box wrap_key returned)     *)
UnwrapSealed ==
    /\ last.op = "none"
    /\ \E bytes \in Buffers, password \in Passwords, seed \in RngSeeds :
        LET nonce  == Draw(seed, CHACHA_NONCE_SIZE)
            sealed == AeadEncrypt("ChaCha20Poly1305", wrap_wrapping_key(password), nonce, bytes)
            box    == [ciphertext |-> sealed.val, nonce |-> nonce]
        IN  /\ sealed.ok
            /\ last' = Call("unwrap_key", box, bytes, password, unwrap_key(box, password))
            /\ UNCHANGED <<cur, calls, heap, kres, rest>>

Next == Encrypt \/ Decrypt \/ WrapKey \/ UnwrapKey \/ FromBytes \/ UnwrapSealed

Spec == Init /\ [][Next]_vars
----------------------------------------------------------------------------
(* Claims checked under Spec *)

IntactFieldBox == cur.op = "encrypt" /\ last.op = "decrypt" /\ last.box = cur.box

IntactWrapBox == cur.op = "wrap_key" /\ last.op = "unwrap_key" /\ last.box = cur.box

(* C1: encrypt succeeds for every plaintext and key, and decrypting the     *)
(* returned box with the same key returns exactly the plaintext.            *)
C1_FieldRoundTrip ==
    /\ last.op = "encrypt" => last.out.ok
    /\ (IntactFieldBox /\ last.key = cur.key) => last.out = Ok(cur.data)

C1_Witness ==
    /\ IntactFieldBox /\ last.key = cur.key
    /\ Len(cur.data) = MaxDataLen
    /\ cur.box.ciphertext.body # cur.data

(* C2: wrap_key succeeds for every key and password, and unwrap_key of the  *)
(* returned box with the same password returns a key with the same bytes.   *)
C2_WrapRoundTrip ==
    /\ last.op = "wrap_key" => last.out.ok
    /\ (IntactWrapBox /\ last.password = cur.password) => last.out = Ok(as_bytes(cur.key))

C2_Witness ==
    /\ IntactWrapBox /\ last.password = cur.password
    /\ Len(cur.password) > KEY_SIZE
    /\ last.out.ok

(* C3: unwrap_key with a password other than the one given to wrap_key      *)
(* returns DecryptionFailed and never a key.                                 *)
C3_WrongPasswordRejected ==
    (IntactWrapBox /\ last.password # cur.password)
        => (~last.out.ok /\ last.out.err = "DecryptionFailed")

(* C4: decrypting a box with a key other than the one it was encrypted      *)
(* under fails with DecryptionFailed and returns no plaintext, and with the *)
(* same key it returns the plaintext.                                        *)
C4_KeySeparation ==
    /\ (IntactFieldBox /\ last.key # cur.key)
          => last.out = Err("DecryptionFailed", "aead::Error")
    /\ (IntactFieldBox /\ last.key = cur.key) => (last.out.ok /\ last.out.val = cur.data)

C4_Witness ==
    /\ IntactFieldBox
    /\ last.key # cur.key
    /\ Cardinality({i \in 1..KEY_SIZE : last.key[i] # cur.key[i]}) = 1
    /\ ~last.out.ok

(* C5: a box returned by encrypt with one bit of its ciphertext (body or    *)
(* tag) or of its nonce changed never decrypts under the encryption key.    *)
C5_TamperDetected ==
    (cur.op = "encrypt" /\ last.op = "decrypt" /\ last.key = cur.key
        /\ last.box \in BitFlips(cur.box))
        => ~last.out.ok

C5_Witness ==
    /\ cur.op = "encrypt" /\ last.op = "decrypt" /\ last.key = cur.key
    /\ last.box = FlipNonceBit(cur.box, 8 * AES_GCM_NONCE_SIZE - 1)
    /\ last.out.err = "DecryptionFailed"

(* C7: from_bytes succeeds exactly on buffers of 32 bytes, returning a key  *)
(* with those bytes; on any other length it returns InvalidData reporting   *)
(* the length and no key.                                                    *)
C7_FromBytesLength ==
    last.op = "from_bytes" =>
        /\ last.out.ok <=> Len(last.key) = KEY_SIZE
        /\ last.out.ok => last.out.val = last.key
        /\ ~last.out.ok =>
              /\ last.out.err = "InvalidData"
              /\ last.out.info[2] = Len(last.key)
              /\ last.out.val = <<>>

C7_Witness ==
    last.op = "from_bytes" /\ Len(last.key) = KEY_SIZE + 1 /\ last.out.err = "InvalidData"

(* C8: decrypt and unwrap_key return InvalidData for every box whose nonce  *)
(* is not 12 bytes long, whatever the ciphertext, key or password.          *)
C8_NonceLengthFirst ==
    /\ (last.op = "decrypt" /\ Len(last.box.nonce) # AES_GCM_NONCE_SIZE)
          => (~last.out.ok /\ last.out.err = "InvalidData")
    /\ (last.op = "unwrap_key" /\ Len(last.box.nonce) # CHACHA_NONCE_SIZE)
          => (~last.out.ok /\ last.out.err = "InvalidData")

C8_Witness ==
    /\ cur.op = "encrypt" /\ last.op = "decrypt"
    /\ Len(last.box.nonce) = AES_GCM_NONCE_SIZE + 1
    /\ last.key # cur.key
    /\ last.out.err = "InvalidData"
----------------------------------------------------------------------------
(* SpecCalls: a sequence of up to MaxCalls calls of encrypt and wrap_key.   *)
(* Each entry keeps the call's arguments, the bytes the random source gave  *)
(* it, the wrapping key it derived and the box it returned.                  *)

CallKeys == {generate(s) : s \in RngSeeds}

CallData == {<<>>, <<195>>}

CallPasswords == {<<>>, <<97>>}

EncryptCall ==
    /\ Len(calls) < MaxCalls
    /\ \E data \in CallData, key \in CallKeys, seed \in RngSeeds :
        LET out == encrypt(data, key, seed)
        IN  /\ calls' = Append(calls,
                   [op |-> "encrypt", key |-> key, password |-> <<>>,
                    rng |-> Draw(seed, AES_GCM_NONCE_SIZE),
                    wrapping_key |-> <<>>, out |-> out])
            /\ UNCHANGED <<cur, last, heap, kres, rest>>

WrapKeyCall ==
    /\ Len(calls) < MaxCalls
    /\ \E key \in CallKeys, password \in CallPasswords, seed \in RngSeeds :
        LET out == wrap_key(key, password, seed)
        IN  /\ calls' = Append(calls,
                   [op |-> "wrap_key", key |-> key, password |-> password,
                    rng |-> Draw(seed, CHACHA_NONCE_SIZE),
                    wrapping_key |-> wrap_wrapping_key(password), out |-> out])
            /\ UNCHANGED <<cur, last, heap, kres, rest>>

NextCalls == EncryptCall \/ WrapKeyCall

SpecCalls == Init /\ [][NextCalls]_vars

EncryptPairs ==
    {<<i, j>> \in (DOMAIN calls) \X (DOMAIN calls) :
        i < j /\ calls[i].op = "encrypt" /\ calls[j].op = "encrypt"
              /\ calls[i].key = calls[j].key}

WrapPairs ==
    {<<i, j>> \in (DOMAIN calls) \X (DOMAIN calls) :
        i < j /\ calls[i].op = "wrap_key" /\ calls[j].op = "wrap_key"
              /\ calls[i].password = calls[j].password}

(* C6 as stated: no two boxes returned by encrypt under one key carry the   *)
(* same nonce.                                                               *)
C6_NonceSingleUse ==
    \A p \in EncryptPairs : calls[p[1]].out.val.nonce # calls[p[2]].out.val.nonce

(* C6 as amended: every encrypt call returns as its nonce exactly the 12    *)
(* bytes it drew from the random source in that call, so two boxes under    *)
(* one key share a nonce exactly when the source returned the same bytes.   *)
C6_NonceIsFreshDraw ==
    /\ \A i \in DOMAIN calls :
          calls[i].op = "encrypt" =>
              /\ calls[i].out.ok
              /\ Len(calls[i].out.val.nonce) = AES_GCM_NONCE_SIZE
              /\ calls[i].out.val.nonce = calls[i].rng
    /\ \A p \in EncryptPairs :
          (calls[p[1]].out.val.nonce = calls[p[2]].out.val.nonce)
              <=> (calls[p[1]].rng = calls[p[2]].rng)

C6_Witness ==
    \E p \in EncryptPairs, q \in EncryptPairs :
        /\ calls[p[1]].out.val.nonce # calls[p[2]].out.val.nonce
        /\ calls[q[1]].out.val.nonce = calls[q[2]].out.val.nonce

(* C10: the wrapping key is derived from the password and a random salt     *)
(* returned with the box, so two wrap_key calls with the same password use  *)
(* different wrapping keys.                                                  *)
C10_SaltedDerivation ==
    \A p \in WrapPairs : calls[p[1]].wrapping_key # calls[p[2]].wrapping_key

----------------------------------------------------------------------------
(* SpecKeys: the EncryptionKey values of a run.  heap[i] is the memory of   *)
(* the i-th value created: its 32 bytes, whether it is still owned (live),  *)
(* and how it was made.  Release runs Drop::drop on a value whose owner      *)
(* leaves scope, by normal return, by early return or by an error.          *)

ExitPaths == {"success", "early_return", "error"}

OwnedBoxes ==
    {wrap_key(key, password, 1).val : key \in CallKeys, password \in CallPasswords}

Cell(bytes, origin) == [bytes |-> bytes, live |-> TRUE, origin |-> origin]

Generate ==
    /\ Len(heap) < MaxKeys
    /\ \E seed \in RngSeeds :
        /\ heap' = Append(heap, Cell(generate(seed), "generate"))
        /\ kres' = [op |-> "generate"]
    /\ UNCHANGED <<cur, last, calls, rest>>

FromBytesOwned ==
    /\ Len(heap) < MaxKeys
    /\ \E bytes \in Buffers :
        LET out == from_bytes(bytes)
        IN  /\ heap' = IF out.ok THEN Append(heap, Cell(out.val, "from_bytes")) ELSE heap
            /\ kres' = [op |-> "from_bytes", ok |-> out.ok]
    /\ UNCHANGED <<cur, last, calls, rest>>

Clone ==
    /\ Len(heap) < MaxKeys
    /\ \E i \in DOMAIN heap :
        /\ heap[i].live
        /\ heap' = Append(heap, Cell(clone(heap[i].bytes), "clone"))
        /\ kres' = [op |-> "clone"]
    /\ UNCHANGED <<cur, last, calls, rest>>

UnwrapKeyOwned ==
    /\ Len(heap) < MaxKeys
    /\ \E box \in OwnedBoxes \cup {WithNonceLen(b, 0) : b \in OwnedBoxes},
          password \in CallPasswords :
        LET out == unwrap_key(box, password)
        IN  /\ heap' = IF out.ok THEN Append(heap, Cell(out.val, "unwrap_key")) ELSE heap
            /\ kres' = [op |-> "unwrap_key", ok |-> out.ok]
    /\ UNCHANGED <<cur, last, calls, rest>>

Release ==
    /\ \E i \in DOMAIN heap, path \in ExitPaths :
        /\ heap[i].live
        /\ heap' = [heap EXCEPT ![i].bytes = drop(@), ![i].live = FALSE]
        /\ kres' = [op |-> "release", path |-> path, origin |-> heap[i].origin,
                    was |-> heap[i].bytes]
    /\ UNCHANGED <<cur, last, calls, rest>>

NextKeys == Generate \/ FromBytesOwned \/ Clone \/ UnwrapKeyOwned \/ Release

SpecKeys == Init /\ [][NextKeys]_vars

(* C9: every EncryptionKey value, however it was made, has all 32 bytes     *)
(* zero once it is released, on every exit path of its owner.               *)
C9_KeyErasedOnRelease ==
    \A i \in DOMAIN heap :
        ~heap[i].live => (Len(heap[i].bytes) = KEY_SIZE /\ heap[i].bytes = Zeros(KEY_SIZE))

C9_Witness ==
    /\ kres.op = "release" /\ kres.path = "error" /\ kres.origin = "unwrap_key"
    /\ kres.was # Zeros(KEY_SIZE)
    /\ \A i \in DOMAIN heap : ~heap[i].live
    /\ \E i \in DOMAIN heap : heap[i].origin = "clone"
----------------------------------------------------------------------------
(* migrations.rs: run_migrations.                                            *)
(*                                                                           *)
(* db.user_version is PRAGMA user_version, db.tables the tables that exist,  *)
(* db.commits the migration versions committed so far in commit order, and   *)
(* db.lock the run holding SQLite's write lock (0: none).  A run is          *)
(*   pc        where the invocation is                                       *)
(*   version   its local `version` (line 173)                                *)
(*   i         the loop index of `for (i, migration_sql) in ...enumerate()`  *)
(*   tx        the uncommitted effects of its open transaction               *)
(* with a record of what it did: begun (the versions it began a transaction  *)
(* for), applied (those it committed), start (user_version when it was       *)
(* called), failed_at and seen (the migration that failed and the database   *)
(* as it was when the error was returned), returned (user_version when Ok    *)
(* was returned).                                                            *)

(* const MIGRATIONS: each script by the tables its CREATE TABLE IF NOT EXISTS make *)
MIGRATIONS ==
    << {"patients", "appointments", "anamneses", "finances", "social_metrics", "master_keys"},
       {"system_integrations", "entity_mappings", "sync_events"} >>

(* a runner that numbers migration i as i instead of i + 1 *)
migration_version_from_zero(i) == i

(* let migration_version = (i + 1) as i64 *)
migration_version(i) == i + 1

(* if migration_version <= version { continue; } *)
already_applied(mv, version) == mv <= version

NoTx == [tables |-> {}, user_version |-> -1]

NewRun ==
    [pc |-> "read", version |-> 0, i |-> 0, tx |-> NoTx, result |-> "running",
     begun |-> <<>>, applied |-> <<>>, start |-> db.user_version,
     failed_at |-> 0, seen |-> FreshDb, returned |-> -1]

(* a transaction's statements take effect in the database at COMMIT *)
committed(d, tx, mv) ==
    [user_version |-> IF tx.user_version = -1 THEN d.user_version ELSE tx.user_version,
     tables |-> d.tables \cup tx.tables,
     commits |-> Append(d.commits, mv),
     lock |-> 0]

(* dropping the sqlx Transaction rolls it back: nothing of it stays, the lock is freed *)
rolled_back(d, r) == [d EXCEPT !.lock = IF @ = r THEN 0 ELSE @]

(* `?` on a failed step of migration mv: the transaction is dropped, Err is returned *)
Failed(r, mv) ==
    /\ db' = rolled_back(db, r)
    /\ runs' = [runs EXCEPT ![r].pc = "done", ![r].result = "err", ![r].tx = NoTx,
                            ![r].failed_at = mv,
                            ![r].seen = [rolled_back(db, r) EXCEPT !.commits = <<>>]]

Active(r) == r \in DOMAIN runs /\ runs[r].pc # "done"

(* let mut version: i64 = 0; match query_scalar("PRAGMA user_version") ...   *)
(* Ok(v) => version = v, Err(e) => logged, version stays 0                   *)
ReadVersion(r) ==
    /\ runs[r].pc = "read"
    /\ \E ok \in BOOLEAN :
        runs' = [runs EXCEPT ![r].pc = "loop",
                             ![r].version = IF ok THEN db.user_version ELSE @]
    /\ UNCHANGED db

(* one turn of the for loop up to `continue` or pool.begin(); after the last, Ok(()) *)
LoopStep(r) ==
    /\ runs[r].pc = "loop"
    /\ runs' = IF runs[r].i >= Len(MIGRATIONS)
               THEN [runs EXCEPT ![r].pc = "done", ![r].result = "ok",
                                 ![r].returned = db.user_version]
               ELSE IF already_applied(migration_version(runs[r].i), runs[r].version)
               THEN [runs EXCEPT ![r].i = @ + 1]
               ELSE [runs EXCEPT ![r].pc = "begin"]
    /\ UNCHANGED db

(* pool.begin().await.context(...)? *)
Begin(r) ==
    /\ runs[r].pc = "begin"
    /\ \E ok \in BOOLEAN :
        IF ok
        THEN /\ runs' = [runs EXCEPT ![r].pc = "exec", ![r].tx = NoTx,
                                     ![r].begun = Append(@, migration_version(runs[r].i))]
             /\ UNCHANGED db
        ELSE Failed(r, migration_version(runs[r].i))

(* sqlx::query(migration_sql).execute(&mut transaction): the first write     *)
(* takes the write lock; while another run holds it this one waits or fails  *)
Exec(r) ==
    /\ runs[r].pc = "exec"
    /\ \E ok \in BOOLEAN :
        IF ok
        THEN /\ db.lock \in {0, r}
             /\ db' = [db EXCEPT !.lock = r]
             /\ runs' = [runs EXCEPT ![r].pc = "set_version",
                                     ![r].tx.tables = MIGRATIONS[runs[r].i + 1]]
        ELSE Failed(r, migration_version(runs[r].i))

(* sqlx::query("PRAGMA user_version = {migration_version}").execute(&mut transaction) *)
SetVersion(r) ==
    /\ runs[r].pc = "set_version"
    /\ \E ok \in BOOLEAN :
        IF ok
        THEN /\ runs' = [runs EXCEPT ![r].pc = "commit",
                                     ![r].tx.user_version = migration_version(runs[r].i)]
             /\ UNCHANGED db
        ELSE Failed(r, migration_version(runs[r].i))

(* transaction.commit().await.context(...)?, then the next turn of the loop *)
Commit(r) ==
    /\ runs[r].pc = "commit"
    /\ \E ok \in BOOLEAN :
        IF ok
        THEN /\ db' = committed(db, runs[r].tx, migration_version(runs[r].i))
             /\ runs' = [runs EXCEPT ![r].pc = "loop", ![r].tx = NoTx, ![r].i = @ + 1,
                                     ![r].applied = Append(@, migration_version(runs[r].i))]
        ELSE Failed(r, migration_version(runs[r].i))

CryptoUnchanged == UNCHANGED <<cur, last, calls, heap, kres, store, mem>>

(* SpecMig: run_migrations is called again only after the previous call returned *)
StartRun ==
    /\ Len(runs) < MaxRuns
    /\ \A r \in DOMAIN runs : runs[r].pc = "done"
    /\ runs' = Append(runs, NewRun)
    /\ UNCHANGED <<cur, last, calls, heap, kres, db, store, mem>>

NextMig ==
    \/ StartRun
    \/ \E r \in DOMAIN runs : ReadVersion(r) /\ CryptoUnchanged
    \/ \E r \in DOMAIN runs : LoopStep(r) /\ CryptoUnchanged
    \/ \E r \in DOMAIN runs : Begin(r) /\ CryptoUnchanged
    \/ \E r \in DOMAIN runs : Exec(r) /\ CryptoUnchanged
    \/ \E r \in DOMAIN runs : SetVersion(r) /\ CryptoUnchanged
    \/ \E r \in DOMAIN runs : Commit(r) /\ CryptoUnchanged

SpecMig == Init /\ [][NextMig]_vars

(* SpecMigConc: up to MaxRunners calls on the same database, overlapping freely *)
StartRunner ==
    /\ Len(runs) < MaxRunners
    /\ runs' = Append(runs, NewRun)
    /\ UNCHANGED <<cur, last, calls, heap, kres, db, store, mem>>

NextMigConc ==
    \/ StartRunner
    \/ \E r \in DOMAIN runs : ReadVersion(r) /\ CryptoUnchanged
    \/ \E r \in DOMAIN runs : LoopStep(r) /\ CryptoUnchanged
    \/ \E r \in DOMAIN runs : Begin(r) /\ CryptoUnchanged
    \/ \E r \in DOMAIN runs : Exec(r) /\ CryptoUnchanged
    \/ \E r \in DOMAIN runs : SetVersion(r) /\ CryptoUnchanged
    \/ \E r \in DOMAIN runs : Commit(r) /\ CryptoUnchanged

SpecMigConc == Init /\ [][NextMigConc]_vars

(* the versions start+1, start+2, ... in order *)
Ascending(start, n) == [k \in 1..n |-> start + k]

(* C11: a run applies exactly the scripts whose version is greater than the  *)
(* persisted version it was called with, in ascending order, and a run that  *)
(* returns Ok has applied all of them; so a run called on a fully migrated   *)
(* database applies nothing.                                                 *)
C11_OrderAndSkipping ==
    \A r \in DOMAIN runs :
        /\ runs[r].applied = Ascending(runs[r].start, Len(runs[r].applied))
        /\ runs[r].result = "ok" =>
              Len(runs[r].applied) = Len(MIGRATIONS) - runs[r].start

(* C12: when a step of migration n fails the run returns an error, the       *)
(* persisted version is n-1, none of script n's tables exist, the run began  *)
(* no later migration, and the next run begins with migration n.             *)
C12_FailureAllOrNothing ==
    \A r \in DOMAIN runs :
        runs[r].result = "err" =>
            /\ runs[r].seen.user_version = runs[r].failed_at - 1
            /\ runs[r].seen.tables \cap MIGRATIONS[runs[r].failed_at] = {}
            /\ \A k \in DOMAIN runs[r].begun : runs[r].begun[k] <= runs[r].failed_at
            /\ (r + 1 \in DOMAIN runs /\ runs[r + 1].begun # <<>>)
                  => runs[r + 1].begun[1] = runs[r].failed_at

C16_VersionNeverDecreases ==
    \A j, k \in DOMAIN db.commits : j < k => db.commits[j] <= db.commits[k]

----------------------------------------------------------------------------
(* SpecStore: the master_keys table under provisioning and rotation.  A row *)
(* is a MasterKey; a rotation is one transaction on a copy of the table     *)
(* (store.tx) that becomes visible only when it commits.                    *)

MaxRecords == 3

(* a MasterKey row holding the wrapped key `box` *)
MasterKey(id, box, key_version) ==
    [id |-> id, active |-> TRUE, key_version |-> key_version,
     wrapped_key_ciphertext |-> box.ciphertext.body,
     wrapped_key_nonce |-> box.nonce,
     wrapped_key_tag |-> box.ciphertext.tag]

RECURSIVE previous_max(_)
previous_max(records) ==
    IF records = <<>> THEN 0
    ELSE LET m == previous_max(Tail(records))
         IN  IF Head(records).key_version > m THEN Head(records).key_version ELSE m

(* a rotation that leaves the previous record active *)
deactivate_nothing(records) == records

(* set active = false on every record but the newest *)
deactivate_previous(records) ==
    [i \in DOMAIN records |->
        IF records[i].key_version < previous_max(records)
        THEN [records[i] EXCEPT !.active = FALSE]
        ELSE records[i]]

StoreUnchanged == UNCHANGED <<cur, last, calls, heap, kres, db, runs, mem>>

(* provisioning: generate a key, wrap it, insert the first record *)
Provision ==
    /\ store.records = <<>> /\ store.step = "idle"
    /\ \E seed \in RngSeeds, password \in CallPasswords :
        LET wrapped == wrap_key(generate(seed), password, seed)
        IN  /\ wrapped.ok
            /\ store' = [store EXCEPT !.records = <<MasterKey(1, wrapped.val, 1)>>,
                                      !.last = "provisioned",
                                      !.ever = {1}]
    /\ StoreUnchanged

RotateBegin ==
    /\ store.records # <<>> /\ store.step = "idle"
    /\ Len(store.records) < MaxRecords
    /\ store' = [store EXCEPT !.tx = store.records, !.step = "begun"]
    /\ StoreUnchanged

(* insert the record of the new key: key_version = previous_max + 1, active *)
RotateInsert ==
    /\ store.step = "begun"
    /\ \E seed \in RngSeeds, password \in CallPasswords :
        LET wrapped == wrap_key(generate(seed), password, seed)
        IN  /\ wrapped.ok
            /\ store' = [store EXCEPT
                            !.tx = Append(@, MasterKey(Len(@) + 1, wrapped.val,
                                                       previous_max(@) + 1)),
                            !.step = "inserted"]
    /\ StoreUnchanged

RotateDeactivate ==
    /\ store.step = "inserted"
    /\ store' = [store EXCEPT !.tx = deactivate_previous(@), !.step = "deactivated"]
    /\ StoreUnchanged

RotateCommit ==
    /\ store.step = "deactivated"
    /\ store' = [store EXCEPT !.records = store.tx, !.tx = <<>>, !.step = "idle",
                              !.last = "rotated",
                              !.ever = @ \cup {store.tx[i].id : i \in DOMAIN store.tx}]
    /\ StoreUnchanged

(* the atomic unit cannot complete: the transaction is rolled back *)
RotateAbort ==
    /\ store.step \in {"begun", "inserted", "deactivated"}
    /\ store' = [store EXCEPT !.tx = <<>>, !.step = "idle", !.last = "aborted"]
    /\ StoreUnchanged

NextStore ==
    \/ Provision
    \/ RotateBegin
    \/ RotateInsert
    \/ RotateDeactivate
    \/ RotateCommit
    \/ RotateAbort

SpecStore == Init /\ [][NextStore]_vars

ActiveRecords == {i \in DOMAIN store.records : store.records[i].active}

(* C14: in every state of the master key store, after provisioning and      *)
(* after completed or aborted rotations, at most one record is active and   *)
(* every record ever written is still there.                                 *)
C14_MasterKeyInvariant ==
    /\ Cardinality(ActiveRecords) <= 1
    /\ {store.records[i].id : i \in DOMAIN store.records} = store.ever
    /\ Len(store.records) = Cardinality(store.ever)

C14_Witness ==
    /\ Len(store.records) = 2
    /\ store.last = "aborted"
    /\ ActiveRecords = {2}
    /\ store.records[2].key_version = 2
    /\ store.records[1].wrapped_key_nonce # store.records[2].wrapped_key_nonce

----------------------------------------------------------------------------
(* the plaintext ChaCha20-Poly1305 recovers from a box under the wrapping   *)
(* key of a password                                                         *)
Recovered(box, password) ==
    AeadDecrypt("ChaCha20Poly1305", unwrap_wrapping_key(password), box.nonce, box.ciphertext)

(* C15: unwrap_key returns only keys of 32 bytes; when the box authenticates *)
(* under the password's wrapping key and the recovered plaintext is not 32   *)
(* bytes long it returns InvalidData and no key.                             *)
C15_UnwrappedKeyLength ==
    last.op = "unwrap_key" =>
        /\ last.out.ok => Len(last.out.val) = KEY_SIZE
        /\ (/\ Len(last.box.nonce) = CHACHA_NONCE_SIZE
            /\ Recovered(last.box, last.password).ok
            /\ Len(Recovered(last.box, last.password).val) # KEY_SIZE)
              => (~last.out.ok /\ last.out.err = "InvalidData" /\ last.out.val = <<>>)

C15_Witness ==
    /\ last.op = "unwrap_key" /\ cur.op = "none"
    /\ Recovered(last.box, last.password).ok
    /\ Recovered(last.box, last.password).val = last.key
    /\ Len(last.key) = KEY_SIZE + 1
    /\ last.out.err = "InvalidData"

----------------------------------------------------------------------------
(* SpecMem: what the temporary buffers of wrap_key and unwrap_key hold when *)
(* the call returns; one run is a wrap_key call and then an unwrap_key call. *)
(* mem.buffers lists the buffers in order of declaration:                   *)
(* wrapping_key, then (unwrap_key, after a successful decrypt) plaintext.   *)

(* wrap_key: `wrapping_key` is a plain [u8; 32]; nothing writes to it after *)
(* the derivation loop, on the error return or on the Ok return.            *)
wrap_key_buffers(key, password, seed) == <<wrap_wrapping_key(password)>>

(* unwrap_key: `wrapping_key` as in wrap_key; `plaintext` is the Vec<u8>    *)
(* decrypt returned, read by from_bytes and then dropped as it is.          *)
unwrap_key_buffers(encrypted, password) ==
    LET wrapping_key == unwrap_wrapping_key(password)
    IN  IF Len(encrypted.nonce) # CHACHA_NONCE_SIZE
        THEN <<wrapping_key>>
        ELSE LET opened == AeadDecrypt("ChaCha20Poly1305", wrapping_key, encrypted.nonce,
                                       encrypted.ciphertext)
             IN  IF ~opened.ok
                 THEN <<wrapping_key>>
                 ELSE <<wrapping_key, opened.val>>

(* a box sealed under the wrapping key of `password` around any plaintext *)
SealedBox(bytes, password, seed) ==
    LET nonce == Draw(seed, CHACHA_NONCE_SIZE)
    IN  [ciphertext |-> AeadEncrypt("ChaCha20Poly1305", wrap_wrapping_key(password),
                                    nonce, bytes).val,
         nonce |-> nonce]

MemUnchanged == UNCHANGED <<cur, last, calls, heap, kres, db, runs, store>>

WrapKeyMem ==
    /\ mem.op = "none"
    /\ \E key \in CallKeys, password \in Passwords, seed \in RngSeeds :
        LET out == wrap_key(key, password, seed)
        IN  mem' = [op |-> "wrap_key", buffers |-> wrap_key_buffers(key, password, seed),
                    password |-> password,
                    box |-> IF out.ok THEN out.val ELSE mem.box,
                    arg |-> NoBox, out |-> out]
    /\ MemUnchanged

UnwrapKeyMem ==
    /\ mem.op = "wrap_key" /\ mem.out.ok
    /\ \E password \in Passwords,
          box \in {mem.box} \cup NonceLens(mem.box)
                  \cup {SealedBox(Draw(1, n), mem.password, 1) : n \in {0, KEY_SIZE + 1}} :
        mem' = [mem EXCEPT !.op = "unwrap_key",
                           !.buffers = unwrap_key_buffers(box, password),
                           !.arg = box,
                           !.out = unwrap_key(box, password)]
    /\ MemUnchanged

NextMem == WrapKeyMem \/ UnwrapKeyMem

SpecMem == Init /\ [][NextMem]_vars

(* C17: when wrap_key or unwrap_key returns, on success or on an error,     *)
(* every temporary buffer that held the wrapping key or the recovered       *)
(* plaintext holds only zeros.                                               *)
C17_TemporariesWiped ==
    mem.op \in {"wrap_key", "unwrap_key"} =>
        \A k \in DOMAIN mem.buffers : mem.buffers[k] = Zeros(Len(mem.buffers[k]))

====
